---- MODULE Spec2Model ----
(***************************************************************************)
(* docker-db-cli: the launcher core.py as a state machine.                 *)
(*                                                                         *)
(* One CLI invocation parses its arguments, then issues container-runtime  *)
(* commands one at a time through run_docker_command; every such call is   *)
(* one atomic step (find_docker, spawn, wait for the result).  The runtime *)
(* itself is the environment: its replies are a nondeterministic choice    *)
(* over what a Docker-compatible engine can answer in the current state.   *)
(*                                                                         *)
(* Strings are TLA+ strings, except where the code works on characters     *)
(* (int() of the --port text, splitlines() of the listing): there a text   *)
(* is a sequence of one-character strings.  A Python None is the empty     *)
(* tuple <<>> and a present optional value v is <<v>>.                      *)
(***************************************************************************)
EXTENDS Integers, Sequences, FiniteSets, TLC

VARIABLES
    containers, \* the runtime's namespace: name -> "absent" | "running" | "exited"
    pc,         \* per invocation: where it stands in main()
    argv,       \* per invocation: the command line as given
    args,       \* per invocation: the argparse namespace
    found,      \* per invocation: what container_exists returned
    log,        \* per invocation: the run_docker_command calls made, with their results
    exitCode,   \* per invocation: the process exit status (meaningful at pc = "done")
    pre,        \* per invocation: the runtime's namespace when the invocation started
    form,       \* the desktop front-end: the tab and the field texts it last launched from
    reliable    \* whether the runtime answers every command as its state alone dictates

vars == <<containers, pc, argv, args, found, log, exitCode, pre, form, reliable>>

---------------------------------------------------------------------------
(* Bounds of the model *)

\* longest --env list tried
MaxEnv == 2
\* integers probed below 1 and above 65535 by the port specification
ProbeBelow == 2
ProbeAbove == 2

\* the CLI processes: one for the launcher on its own, a second for the race
Procs == {1, 2}
Solo == {1}

Names == {"db", "db2", "b"}

\* the characters of a container name, as the listing prints them
NameChars(n) ==
    CASE n = "db"  -> <<"d", "b">>
      [] n = "db2" -> <<"d", "b", "2">>
      [] n = "b"   -> <<"b">>

Users == {"u", "admin"}
Passwords == {"p"}
Dbs == {"d"}
Images == {"img:1"}
EnvEntries == {"A=1", "B=x y"}

Status == {"absent", "running", "exited"}

---------------------------------------------------------------------------
(* Texts as character sequences *)

Digits == <<"0", "1", "2", "3", "4", "5", "6", "7", "8", "9">>

IsDigit(c) == \E d \in 1..10 : Digits[d] = c

DigitVal(c) == (CHOOSE d \in 1..10 : Digits[d] = c) - 1

\* str(n) of a non-negative integer, as a string
RECURSIVE Decimal(_)
Decimal(n) ==
    IF n < 10 THEN Digits[n + 1] ELSE Decimal(n \div 10) \o Digits[(n % 10) + 1]

\* str(n) of an integer, as characters: what a caller types for --port
RECURSIVE NatChars(_)
NatChars(n) ==
    IF n < 10 THEN <<Digits[n + 1]>> ELSE Append(NatChars(n \div 10), Digits[(n % 10) + 1])

IntChars(n) == IF n < 0 THEN <<"-">> \o NatChars(-n) ELSE NatChars(n)

---------------------------------------------------------------------------
(* validate_port: int(value), then the range check *)

IsSpace(c) == c \in {" ", "\t"}

RECURSIVE LStrip(_)
LStrip(s) == IF s # <<>> /\ IsSpace(Head(s)) THEN LStrip(Tail(s)) ELSE s

RECURSIVE RStrip(_)
RStrip(s) ==
    IF s # <<>> /\ IsSpace(s[Len(s)]) THEN RStrip(SubSeq(s, 1, Len(s) - 1)) ELSE s

\* the digits of an int() literal: digits, single underscores only between digits
IsIntBody(b) ==
    /\ Len(b) >= 1
    /\ \A i \in 1..Len(b) : IsDigit(b[i]) \/ b[i] = "_"
    /\ IsDigit(b[1]) /\ IsDigit(b[Len(b)])
    /\ \A i \in 1..(Len(b) - 1) : ~(b[i] = "_" /\ b[i + 1] = "_")

RECURSIVE BodyVal(_, _)
BodyVal(b, acc) ==
    IF b = <<>> THEN acc
    ELSE IF Head(b) = "_" THEN BodyVal(Tail(b), acc)
    ELSE BodyVal(Tail(b), 10 * acc + DigitVal(Head(b)))

\* int(value): [ok |-> FALSE] stands for the ValueError
PyInt(value) ==
    LET t == RStrip(LStrip(value))
        signed == t # <<>> /\ Head(t) \in {"+", "-"}
        body == IF signed THEN Tail(t) ELSE t
    IN  IF IsIntBody(body)
        THEN [ok |-> TRUE,
              val |-> IF signed /\ Head(t) = "-" THEN 0 - BodyVal(body, 0)
                      ELSE BodyVal(body, 0)]
        ELSE [ok |-> FALSE, val |-> 0]

\* a range check that lets 65535 through as invalid and 0 as valid
validate_port_shifted(value) ==
    LET r == PyInt(value)
    IN  IF r.ok /\ 0 <= r.val /\ r.val < 65535
        THEN [ok |-> TRUE, port |-> r.val]
        ELSE [ok |-> FALSE, port |-> 0]

\* [ok |-> FALSE] stands for the ArgumentTypeError, which argparse turns into
\* a usage error
validate_port(value) ==
    LET r == PyInt(value)
    IN  IF r.ok /\ 1 <= r.val /\ r.val <= 65535
        THEN [ok |-> TRUE, port |-> r.val]
        ELSE [ok |-> FALSE, port |-> 0]

---------------------------------------------------------------------------
(* container_exists: name in result.stdout.splitlines() *)

LF == "\n"

FirstLF(s) ==
    IF \E i \in 1..Len(s) : s[i] = LF
    THEN CHOOSE i \in 1..Len(s) : s[i] = LF /\ \A j \in 1..(i - 1) : s[j] # LF
    ELSE 0

\* str.splitlines() on a text whose only line boundary is "\n"
RECURSIVE splitlines(_)
splitlines(s) ==
    IF s = <<>> THEN <<>>
    ELSE LET k == FirstLF(s)
         IN  IF k = 0 THEN <<s>>
             ELSE <<SubSeq(s, 1, k - 1)>> \o splitlines(SubSeq(s, k + 1, Len(s)))

\* x in list
InList(x, list) == \E i \in 1..Len(list) : list[i] = x

\* x in text: Python's substring test on a str
InText(x, text) ==
    \E i \in 0..(Len(text) - Len(x)) : SubSeq(text, i + 1, i + Len(x)) = x

\* a membership test on the raw output instead of on its lines
NameListed_substring(name, stdout) == InText(NameChars(name), stdout)

NameListed(name, stdout) == InList(NameChars(name), splitlines(stdout))

---------------------------------------------------------------------------
(* The command line and argparse *)

None == <<>>
Some(v) == <<v>>

Presets == {"postgres", "mysql", "mongo"}
Launchers == Presets \cup {"redis", "custom"}

\* a --port value as typed, with the integer it denotes (None: it denotes none)
PortInput(q) == [text |-> IntChars(q), of |-> Some(q)]
PortText(t, q) == [text |-> t, of |-> q]

\* --image default of each subparser, None where --image is required or not taken
DefaultImage(command) ==
    CASE command = "postgres" -> Some("postgres:16")
      [] command = "mysql"    -> Some("mysql:8")
      [] command = "redis"    -> Some("redis:7")
      [] command = "mongo"    -> Some("mongo:7")
      [] OTHER                -> None

\* the flags add_argument declares with required=True
RequiredFlags(command) ==
    CASE command = "stop"     -> {"name"}
      [] command \in Presets  -> {"name", "user", "password", "db", "port"}
      [] command = "redis"    -> {"name", "port"}
      [] command = "custom"   -> {"name", "image"}

\* parser.parse_args(): [ok |-> FALSE] stands for the usage error (exit status 2)
parse_args(a) ==
    LET port == IF a.port = None THEN [ok |-> TRUE, port |-> 0]
                ELSE validate_port(a.port[1].text)
        missing == {f \in RequiredFlags(a.command) : a[f] = None}
    IN  IF missing # {} \/ ~port.ok
        THEN [ok |-> FALSE, ns |-> a]
        ELSE [ok |-> TRUE,
              ns |-> [command  |-> a.command,
                      name     |-> a.name[1],
                      user     |-> a.user,
                      password |-> a.password,
                      db       |-> a.db,
                      port     |-> IF a.port = None THEN None ELSE Some(port.port),
                      image    |-> IF a.image = None THEN DefaultImage(a.command)
                                   ELSE a.image,
                      env      |-> a.env]]

---------------------------------------------------------------------------
(* main()'s dispatch: the env list and the port mapping of each kind *)

\* mysql with the user's password only, and the database after the user
env_for_reordered(ns) ==
    CASE ns.command = "postgres" ->
            Some(<< "POSTGRES_USER=" \o ns.user[1],
                    "POSTGRES_PASSWORD=" \o ns.password[1],
                    "POSTGRES_DB=" \o ns.db[1] >>)
      [] ns.command = "mysql" ->
            Some(<< "MYSQL_ROOT_PASSWORD=" \o ns.password[1],
                    "MYSQL_USER=" \o ns.user[1],
                    "MYSQL_DATABASE=" \o ns.db[1],
                    "MYSQL_PASSWORD=" \o ns.password[1] >>)
      [] ns.command = "redis" -> None
      [] ns.command = "mongo" ->
            Some(<< "MONGO_INITDB_ROOT_USERNAME=" \o ns.user[1],
                    "MONGO_INITDB_ROOT_PASSWORD=" \o ns.password[1],
                    "MONGO_INITDB_DATABASE=" \o ns.db[1] >>)
      [] ns.command = "custom" -> ns.env

env_for(ns) ==
    CASE ns.command = "postgres" ->
            Some(<< "POSTGRES_USER=" \o ns.user[1],
                    "POSTGRES_PASSWORD=" \o ns.password[1],
                    "POSTGRES_DB=" \o ns.db[1] >>)
      [] ns.command = "mysql" ->
            Some(<< "MYSQL_ROOT_PASSWORD=" \o ns.password[1],
                    "MYSQL_DATABASE=" \o ns.db[1],
                    "MYSQL_USER=" \o ns.user[1],
                    "MYSQL_PASSWORD=" \o ns.password[1] >>)
      [] ns.command = "redis" -> None
      [] ns.command = "mongo" ->
            Some(<< "MONGO_INITDB_ROOT_USERNAME=" \o ns.user[1],
                    "MONGO_INITDB_ROOT_PASSWORD=" \o ns.password[1],
                    "MONGO_INITDB_DATABASE=" \o ns.db[1] >>)
      [] ns.command = "custom" -> ns.env

\* custom without the test on args.port: the mapping is formatted from None
port_mapping_for_unconditional(ns) ==
    CASE ns.command = "postgres" -> Some(Decimal(ns.port[1]) \o ":5432")
      [] ns.command = "mysql"    -> Some(Decimal(ns.port[1]) \o ":3306")
      [] ns.command = "redis"    -> Some(Decimal(ns.port[1]) \o ":6379")
      [] ns.command = "mongo"    -> Some(Decimal(ns.port[1]) \o ":27017")
      [] ns.command = "custom"   ->
            IF ns.port # None
            THEN Some(Decimal(ns.port[1]) \o ":" \o Decimal(ns.port[1]))
            ELSE Some("None:None")

port_mapping_for(ns) ==
    CASE ns.command = "postgres" -> Some(Decimal(ns.port[1]) \o ":5432")
      [] ns.command = "mysql"    -> Some(Decimal(ns.port[1]) \o ":3306")
      [] ns.command = "redis"    -> Some(Decimal(ns.port[1]) \o ":6379")
      [] ns.command = "mongo"    -> Some(Decimal(ns.port[1]) \o ":27017")
      [] ns.command = "custom"   ->
            IF ns.port # None /\ ns.port[1] # 0
            THEN Some(Decimal(ns.port[1]) \o ":" \o Decimal(ns.port[1]))
            ELSE None

---------------------------------------------------------------------------
(* The argument lists handed to run_docker_command *)

ps_cmd == <<"ps", "-a", "--format", "{{.Names}}">>

stop_cmd(name) == <<"stop", name>>

rm_cmd(name) == <<"rm", name>>

RECURSIVE EnvFlags(_)
EnvFlags(list) ==
    IF list = <<>> THEN <<>> ELSE <<"-e", Head(list)>> \o EnvFlags(Tail(list))

run_cmd(name, image, env_vars, port_mapping) ==
    <<"run", "--name", name>>
        \o (IF env_vars # None /\ env_vars[1] # <<>> THEN EnvFlags(env_vars[1]) ELSE <<>>)
        \o (IF port_mapping # None /\ port_mapping[1] # ""
            THEN <<"-p", port_mapping[1]>> ELSE <<>>)
        \o <<"-d", image>>

\* the run command main() ends up issuing for a parsed namespace
run_cmd_of(ns) == run_cmd(ns.name, ns.image[1], env_for(ns), port_mapping_for(ns))

---------------------------------------------------------------------------
(* The container runtime, as run_docker_command sees it *)

ExistingNames(cs) == {n \in Names : cs[n] # "absent"}

\* the orders in which a set of names can be printed
Orders(S) ==
    {o \in [1..Cardinality(S) -> S] : \A i, j \in 1..Cardinality(S) : i # j => o[i] # o[j]}

RECURSIVE JoinLines(_)
JoinLines(names) ==
    IF names = <<>> THEN <<>>
    ELSE NameChars(Head(names)) \o <<LF>> \o JoinLines(Tail(names))

\* what `ps -a --format {{.Names}}` can print: one name per line, in some order
Listings(cs) == {JoinLines(o) : o \in Orders(ExistingNames(cs))}

\* exit statuses of a runtime command that failed
FailCodes == {1, 125}

Completed(rc, stdout, err, after) ==
    [kind |-> "completed", rc |-> rc, stdout |-> stdout, err |-> err, after |-> after]

\* --name's value in a run command
RunName(cmd) == cmd[3]

\* the results subprocess.run can return for a command, with the namespace after it
Replies(cmd, cs) ==
    CASE cmd[1] = "ps" ->
            {Completed(0, l, "", cs) : l \in Listings(cs)}
                \cup {Completed(1, <<>>, "daemon", cs)}
      [] cmd[1] = "stop" ->
            (IF cs[cmd[2]] = "running"
                THEN {Completed(0, <<>>, "", [cs EXCEPT ![cmd[2]] = "exited"])}
             ELSE IF cs[cmd[2]] = "exited"
                THEN {Completed(0, <<>>, "", cs)}
             ELSE {Completed(1, <<>>, "no such container", cs)})
                \cup (IF cs[cmd[2]] # "absent"
                        THEN {Completed(1, <<>>, "daemon", cs)} ELSE {})
      [] cmd[1] = "rm" ->
            IF cs[cmd[2]] = "exited"
                THEN {Completed(0, <<>>, "", [cs EXCEPT ![cmd[2]] = "absent"]),
                      Completed(1, <<>>, "daemon", cs)}
            ELSE IF cs[cmd[2]] = "running"
                THEN {Completed(1, <<>>, "container is running", cs)}
            ELSE {Completed(1, <<>>, "no such container", cs)}
      [] cmd[1] = "run" ->
            IF cs[RunName(cmd)] # "absent"
                THEN {Completed(125, <<>>, "name in use", cs)}
            ELSE {Completed(0, <<>>, "", [cs EXCEPT ![RunName(cmd)] = "running"])}
                \cup {Completed(rc, <<>>, "not created", cs) : rc \in FailCodes}
                \cup {Completed(rc, <<>>, "not started",
                                [cs EXCEPT ![RunName(cmd)] = "exited"]) : rc \in FailCodes}

\* find_docker finds no executable, or subprocess.run raises
SpawnFailures(cs) ==
    {[kind |-> k, rc |-> 1, stdout |-> <<>>, err |-> "", after |-> cs] :
        k \in {"notfound", "spawnerror"}}

\* the replies of a runtime that never fails on its own: a command is refused only
\* for the state of the container it names
ReliableReplies(cmd, cs) ==
    {r \in Replies(cmd, cs) : r.err \notin {"daemon", "not created", "not started"}}

\* every way one run_docker_command(args) call can end
Outcomes(cmd, cs) ==
    IF reliable THEN ReliableReplies(cmd, cs)
    ELSE SpawnFailures(cs) \cup Replies(cmd, cs)

Fatal(o) == o.kind # "completed"

Entry(cmd, o) == [cmd |-> cmd, kind |-> o.kind, rc |-> o.rc, err |-> o.err]

---------------------------------------------------------------------------
(* Exit statuses *)

\* find_docker: sys.exit(1)
NotFoundExit == 1
\* run_docker_command's except branch: sys.exit(1)
SpawnErrorExit == 1
\* argparse's usage error
UsageExit == 2
\* main() returns
SuccessExit == 0

fatal_exit(o) == IF o.kind = "notfound" THEN NotFoundExit ELSE SpawnErrorExit

\* a start failure that hands the runtime's status on
start_failure_exit_forwarded(rc) == rc

\* a start failure that only prints
start_failure_exit_ignored(rc) == 0

\* run_container's else branch: sys.exit(1)
start_failure_exit(rc) == 1

---------------------------------------------------------------------------
(* Where an invocation goes next *)

\* a dispatch that never looks for an existing container
after_parse_no_check(command) == IF command = "stop" THEN "stop" ELSE "run"

\* a stop command that removes without stopping first
after_parse_rm_only(command) == IF command = "stop" THEN "rm" ELSE "exists"

\* main(): stop goes to stop_and_remove_container, every other command to run_container
after_parse(command) == IF command = "stop" THEN "stop" ELSE "exists"

\* a replace that only removes
after_exists_no_stop(exists) == IF exists THEN "rm" ELSE "run"

\* a launch that leaves a container it finds alone
after_exists_keep(exists) == IF exists THEN "done" ELSE "run"

\* run_container: if container_exists(name): stop_and_remove_container(name)
after_exists(exists) == IF exists THEN "stop" ELSE "run"

\* a stop whose failure ends stop_and_remove_container
after_stop_checked(command, rc) ==
    IF rc = 0 THEN "rm" ELSE IF command = "stop" THEN "done" ELSE "run"

\* stop_and_remove_container: the stop's result is dropped, the rm follows
after_stop(command, rc) == "rm"

\* stop_and_remove_container returns after the rm, whatever its status: main() ends
\* for the stop command, run_container goes on to the run
after_rm(command, rc) == IF command = "stop" THEN "done" ELSE "run"

---------------------------------------------------------------------------
(* State *)

NoArgv ==
    [command |-> "", name |-> None, user |-> None, password |-> None, db |-> None,
     port |-> None, image |-> None, env |-> None]

NoArgs == [NoArgv EXCEPT !.name = ""]

\* the front-end before any launch: no tab chosen, every field empty
NoForm ==
    [kind |-> "", name |-> <<>>, user |-> <<>>, password |-> <<>>, db |-> <<>>,
     port |-> <<>>, image |-> <<>>, env |-> <<>>]

InitCommon ==
    /\ containers \in [Names -> Status]
    /\ pc = [p \in Procs |-> "idle"]
    /\ argv = [p \in Procs |-> NoArgv]
    /\ args = [p \in Procs |-> NoArgs]
    /\ found = [p \in Procs |-> FALSE]
    /\ log = [p \in Procs |-> <<>>]
    /\ exitCode = [p \in Procs |-> SuccessExit]
    /\ pre = [p \in Procs |-> [n \in Names |-> "absent"]]

\* a process starts: parser.parse_args(), then main()'s dispatch
Invoke(p, a) ==
    /\ pc[p] \in {"idle", "done"}
    /\ argv' = [argv EXCEPT ![p] = a]
    /\ found' = [found EXCEPT ![p] = FALSE]
    /\ log' = [log EXCEPT ![p] = <<>>]
    /\ pre' = [pre EXCEPT ![p] = containers]
    /\ LET r == parse_args(a)
       IN  IF r.ok
           THEN /\ args' = [args EXCEPT ![p] = r.ns]
                /\ pc' = [pc EXCEPT ![p] = after_parse(r.ns.command)]
                /\ exitCode' = [exitCode EXCEPT ![p] = SuccessExit]
           ELSE /\ args' = [args EXCEPT ![p] = NoArgs]
                /\ pc' = [pc EXCEPT ![p] = "done"]
                /\ exitCode' = [exitCode EXCEPT ![p] = UsageExit]
    /\ UNCHANGED containers

\* run_docker_command ends the process: find_docker or the except branch
Die(p, cmd, o) ==
    /\ log' = [log EXCEPT ![p] = Append(@, Entry(cmd, o))]
    /\ pc' = [pc EXCEPT ![p] = "done"]
    /\ exitCode' = [exitCode EXCEPT ![p] = fatal_exit(o)]
    /\ UNCHANGED <<containers, argv, args, found, pre>>

\* the process moves on to `to`; reaching "done" here is main() returning
Goto(p, to) ==
    /\ pc' = [pc EXCEPT ![p] = to]
    /\ exitCode' = [exitCode EXCEPT ![p] = SuccessExit]

\* container_exists(name), and run_container's branch on it
ContainerExists(p) ==
    /\ pc[p] = "exists"
    /\ \E o \in Outcomes(ps_cmd, containers) :
        IF Fatal(o) THEN Die(p, ps_cmd, o)
        ELSE /\ log' = [log EXCEPT ![p] = Append(@, Entry(ps_cmd, o))]
             /\ containers' = o.after
             /\ found' = [found EXCEPT ![p] = NameListed(args[p].name, o.stdout)]
             /\ Goto(p, after_exists(NameListed(args[p].name, o.stdout)))
             /\ UNCHANGED <<argv, args, pre>>

\* stop_and_remove_container: run_docker_command(["stop", name])
Stop(p) ==
    /\ pc[p] = "stop"
    /\ LET cmd == stop_cmd(args[p].name)
       IN  \E o \in Outcomes(cmd, containers) :
            IF Fatal(o) THEN Die(p, cmd, o)
            ELSE /\ log' = [log EXCEPT ![p] = Append(@, Entry(cmd, o))]
                 /\ containers' = o.after
                 /\ Goto(p, after_stop(args[p].command, o.rc))
                 /\ UNCHANGED <<argv, args, found, pre>>

\* stop_and_remove_container: run_docker_command(["rm", name]) and the return
Rm(p) ==
    /\ pc[p] = "rm"
    /\ LET cmd == rm_cmd(args[p].name)
       IN  \E o \in Outcomes(cmd, containers) :
            IF Fatal(o) THEN Die(p, cmd, o)
            ELSE /\ log' = [log EXCEPT ![p] = Append(@, Entry(cmd, o))]
                 /\ containers' = o.after
                 /\ Goto(p, after_rm(args[p].command, o.rc))
                 /\ UNCHANGED <<argv, args, found, pre>>

\* run_container: build the run command, issue it, exit on a nonzero status
Run(p) ==
    /\ pc[p] = "run"
    /\ LET cmd == run_cmd_of(args[p])
       IN  \E o \in Outcomes(cmd, containers) :
            IF Fatal(o) THEN Die(p, cmd, o)
            ELSE /\ log' = [log EXCEPT ![p] = Append(@, Entry(cmd, o))]
                 /\ containers' = o.after
                 /\ pc' = [pc EXCEPT ![p] = "done"]
                 /\ exitCode' = [exitCode EXCEPT ![p] =
                        IF o.rc = 0 THEN SuccessExit ELSE start_failure_exit(o.rc)]
                 /\ UNCHANGED <<argv, args, found, pre>>

---------------------------------------------------------------------------
(* Command lines tried *)

Opt(S) == {None} \cup {Some(x) : x \in S}

EnvLists == UNION {[1..k -> EnvEntries] : k \in 0..MaxEnv}

StopArgvs ==
    {[NoArgv EXCEPT !.command = "stop", !.name = Some(n)] : n \in Names}

PresetArgvs(users, passwords, dbs, ports, images) ==
    {[command |-> c, name |-> Some(n), user |-> u, password |-> w,
      db |-> d, port |-> pt, image |-> im, env |-> None] :
        c \in Presets, n \in Names, u \in users, w \in passwords, d \in dbs,
        pt \in ports, im \in images}

RedisArgvs(ports, images) ==
    {[NoArgv EXCEPT !.command = "redis", !.name = Some(n), !.port = pt, !.image = im] :
        n \in Names, pt \in ports, im \in images}

CustomArgvs(ports, images, envs) ==
    {[NoArgv EXCEPT !.command = "custom", !.name = Some(n), !.port = pt, !.image = im,
                    !.env = ev] :
        n \in Names, pt \in ports, im \in images, ev \in envs}

\* --port values of the build specification: in range, on and off both edges, with
\* leading zeros, and not a number
BuildPorts ==
    {PortInput(0), PortInput(5432), PortInput(65535), PortInput(65536),
     PortText(<<"0", "0", "8", "0">>, Some(80)), PortText(<<"a", "b", "c">>, None)}

\* every kind with every combination of its flags, given or left out
BuildArgvs ==
    PresetArgvs({Some(u) : u \in Users}, {Some(w) : w \in Passwords},
                {Some(d) : d \in Dbs}, Opt(BuildPorts), Opt(Images))
        \cup RedisArgvs(Opt(BuildPorts), Opt(Images))
        \cup CustomArgvs(Opt(BuildPorts), Opt(Images), Opt(EnvLists))

\* the command lines of the launcher specification: every command on every name,
\* with a port that passes and one that does not
LaunchPorts == {PortInput(6379), PortInput(0)}

LaunchArgvs ==
    StopArgvs
        \cup PresetArgvs({Some("u")}, {Some("p")}, {Some("d")},
                         {Some(pt) : pt \in LaunchPorts}, {None})
        \cup RedisArgvs({Some(pt) : pt \in LaunchPorts}, {None})
        \cup CustomArgvs({None, Some(PortInput(6379))}, {Some("img:1")},
                         {None, Some(<<"A=1">>)})

\* --port values of the port specification: every integer from ProbeBelow under 1
\* to ProbeAbove over 65535, and texts that are no integer or an unusual one
PortProbes ==
    {PortInput(q) : q \in (1 - ProbeBelow)..(65535 + ProbeAbove)}
        \cup {PortText(<<>>, None),
              PortText(<<"a", "b", "c">>, None),
              PortText(<<"8", "0", "a">>, None),
              PortText(<<"8", "0", ".", "0">>, None),
              PortText(<<"0", "x", "5", "0">>, None),
              PortText(<<"8", " ", "0">>, None),
              PortText(<<"-">>, None),
              PortText(<<"_", "8", "0">>, None),
              PortText(<<"8", "_", "_", "0">>, None),
              PortText(<<"+", "8", "0">>, Some(80)),
              PortText(<<" ", "8", "0", " ">>, Some(80)),
              PortText(<<"8", "_", "0">>, Some(80)),
              PortText(<<"0", "0", "8", "0">>, Some(80)),
              PortText(<<"-", "0">>, Some(0)),
              PortText(<<"6", "5", "_", "5", "3", "6">>, Some(65536))}

ProbeArgvs ==
    {[NoArgv EXCEPT !.command = "redis", !.name = Some("db"), !.port = Some(pt)] :
        pt \in PortProbes}

---------------------------------------------------------------------------
(* The launcher: consecutive invocations against one runtime *)

Step(p) ==
    /\ \/ ContainerExists(p)
       \/ Stop(p)
       \/ Rm(p)
       \/ Run(p)
    /\ UNCHANGED <<form, reliable>>

\* the CLI run from a shell, against a runtime that can fail
InitCli == InitCommon /\ form = NoForm /\ reliable = FALSE

Init == InitCli

Next ==
    \E p \in Solo :
        \/ \E a \in LaunchArgvs : Invoke(p, a) /\ UNCHANGED <<form, reliable>>
        \/ Step(p)

Spec == Init /\ [][Next]_vars

---------------------------------------------------------------------------
(* One invocation of each command line: what run command it builds *)

InitBuild == InitCli

\* the first invocation of a process, on one of the command lines `pool`
First(p, pool) ==
    /\ pc[p] = "idle"
    /\ \E a \in pool : Invoke(p, a)
    /\ UNCHANGED <<form, reliable>>

NextBuild ==
    \E p \in Solo :
        \/ First(p, BuildArgvs)
        \/ Step(p)

SpecBuild == InitBuild /\ [][NextBuild]_vars

---------------------------------------------------------------------------
(* One invocation per --port value: what validate_port makes of it *)

InitPort == InitCli /\ containers = [n \in Names |-> "absent"]

NextPort == \E p \in Solo : First(p, ProbeArgvs)

SpecPort == InitPort /\ [][NextPort]_vars

---------------------------------------------------------------------------
(* The desktop front-end: launch_container and stop_container of gui.py *)

\* A field's text is the sequence of its words and of the blanks between them.
Blank == " "

RECURSIVE LStripText(_)
LStripText(t) == IF t # <<>> /\ Head(t) = Blank THEN LStripText(Tail(t)) ELSE t

RECURSIVE RStripText(_)
RStripText(t) ==
    IF t # <<>> /\ t[Len(t)] = Blank THEN RStripText(SubSeq(t, 1, Len(t) - 1)) ELSE t

\* widget.text().strip()
strip(t) == RStripText(LStripText(t))

\* the text as one string
RECURSIVE JoinText(_)
JoinText(t) == IF t = <<>> THEN "" ELSE Head(t) \o JoinText(Tail(t))

RECURSIVE SplitFrom(_, _, _)
SplitFrom(t, word, out) ==
    IF t = <<>> THEN (IF word = "" THEN out ELSE Append(out, word))
    ELSE IF Head(t) = Blank
         THEN SplitFrom(Tail(t), "", IF word = "" THEN out ELSE Append(out, word))
    ELSE SplitFrom(Tail(t), word \o Head(t), out)

\* value.split(): the maximal runs without a blank
split(t) == SplitFrom(t, "", <<>>)

\* the fields of each tab, in the order create_input_group keeps them
TabKeys(kind) ==
    CASE kind \in Presets  -> <<"name", "user", "password", "db", "port", "image">>
      [] kind = "redis"    -> <<"name", "port", "image">>
      [] kind = "custom"   -> <<"name", "image", "port", "env">>

\* launch_container: one --env flag for every entry of the Env Vars field
RECURSIVE EnvArgs(_)
EnvArgs(list) ==
    IF list = <<>> THEN <<>> ELSE <<"--env", Head(list)>> \o EnvArgs(Tail(list))

\* launch_container's loop over the fields: the flags it appends
RECURSIVE FieldArgs(_, _)
FieldArgs(f, keys) ==
    IF keys = <<>> THEN <<>>
    ELSE LET key == Head(keys)
             value == strip(f[key])
         IN  (IF value = <<>> THEN <<>>
              ELSE IF key = "env" THEN EnvArgs(split(value))
              ELSE <<"--" \o key, JoinText(value)>>)
                \o FieldArgs(f, Tail(keys))

\* launch_container's `valid`: no required field is empty
gui_valid(f) ==
    \A i \in 1..Len(TabKeys(f.kind)) :
        LET key == TabKeys(f.kind)[i]
        IN  ~ /\ key \in {"name", "user", "password", "db", "image"}
              /\ strip(f[key]) = <<>>
              /\ ~(f.kind = "custom" /\ key \in {"user", "password", "db"})

\* the argument list launch_container hands to QProcess
launch_args(f) == <<"python", "core.py", f.kind>> \o FieldArgs(f, TabKeys(f.kind))

\* the argument list stop_container hands to subprocess.run
gui_stop_args(f) == <<"python", "core.py", "stop", "--name", JoinText(strip(f.name))>>

---------------------------------------------------------------------------
(* argparse on an argument list *)

AllOptions == {"--name", "--user", "--password", "--db", "--port", "--image", "--env"}

\* the options each subparser declares
Options(command) ==
    CASE command = "stop"     -> {"--name"}
      [] command \in Presets  -> {"--name", "--user", "--password", "--db", "--port", "--image"}
      [] command = "redis"    -> {"--name", "--port", "--image"}
      [] command = "custom"   -> {"--name", "--image", "--port", "--env"}
      [] OTHER                -> {}

OptionKey(opt) ==
    CASE opt = "--name"     -> "name"
      [] opt = "--user"     -> "user"
      [] opt = "--password" -> "password"
      [] opt = "--db"       -> "db"
      [] opt = "--port"     -> "port"
      [] opt = "--image"    -> "image"
      [] opt = "--env"      -> "env"

\* a --port word with its characters and the integer it denotes
PortWord(w) ==
    CASE w = "80"   -> PortText(<<"8", "0">>, Some(80))
      [] w = "5432" -> PortText(<<"5", "4", "3", "2">>, Some(5432))
      [] w = "0"    -> PortText(<<"0">>, Some(0))
      [] OTHER      -> PortText(<<"?">>, None)

\* how many arguments at the head of toks are no option
RECURSIVE CountValues(_)
CountValues(toks) ==
    IF toks = <<>> \/ Head(toks) \in AllOptions THEN 0 ELSE 1 + CountValues(Tail(toks))

\* the options of a subparser, left to right: a store action replaces what an earlier
\* occurrence of the same option stored; --env (nargs="*") takes every argument up to
\* the next option, any other option takes exactly one
RECURSIVE ParseOptions(_, _, _)
ParseOptions(command, toks, acc) ==
    IF toks = <<>> THEN acc
    ELSE IF Head(toks) \notin Options(command) THEN [acc EXCEPT !.ok = FALSE]
    ELSE LET key == OptionKey(Head(toks))
             rest == Tail(toks)
             k == CountValues(rest)
         IN  IF key = "env"
             THEN ParseOptions(command, SubSeq(rest, k + 1, Len(rest)),
                               [acc EXCEPT !.a.env = Some(SubSeq(rest, 1, k))])
             ELSE IF k = 0 THEN [acc EXCEPT !.ok = FALSE]
             ELSE ParseOptions(command, Tail(rest),
                               [acc EXCEPT !.a[key] =
                                    IF key = "port" THEN Some(PortWord(Head(rest)))
                                    ELSE Some(Head(rest))])

\* sys.argv[1:] as the command line argparse works on; a malformed list is a command
\* line with nothing given, which parse_args refuses
cli_argv(toks) ==
    LET r == ParseOptions(toks[1], Tail(toks),
                          [ok |-> TRUE, a |-> [NoArgv EXCEPT !.command = toks[1]]])
    IN  IF r.ok THEN r.a ELSE [NoArgv EXCEPT !.command = toks[1]]

\* the process started on an argument list: python core.py <sys.argv[1:]>
Start(p, argl) == Invoke(p, cli_argv(SubSeq(argl, 3, Len(argl))))

---------------------------------------------------------------------------
(* The front-end's two buttons *)

\* Launch: nothing is started when a required field is empty
GuiLaunch(p, f) ==
    /\ pc[p] = "idle"
    /\ form' = f
    /\ IF gui_valid(f) THEN Start(p, launch_args(f))
       ELSE UNCHANGED <<containers, pc, argv, args, found, log, exitCode, pre>>
    /\ UNCHANGED reliable

\* Stop: nothing is started when the name field is empty
GuiStop(p, f) ==
    /\ pc[p] = "idle"
    /\ form' = f
    /\ IF strip(f.name) # <<>> THEN Start(p, gui_stop_args(f))
       ELSE UNCHANGED <<containers, pc, argv, args, found, log, exitCode, pre>>
    /\ UNCHANGED reliable

---------------------------------------------------------------------------
(* Forms tried *)

\* most entries typed into the Env Vars field
MaxGuiEnv == 3

GuiEnvEntries == {"A=1", "B=2"}

\* the entries with one blank between them
RECURSIVE Spaced(_)
Spaced(list) ==
    IF list = <<>> THEN <<>>
    ELSE IF Len(list) = 1 THEN list
    ELSE <<Head(list), Blank>> \o Spaced(Tail(list))

GuiEnvTexts ==
    LET lists == UNION {[1..k -> GuiEnvEntries] : k \in 0..MaxGuiEnv}
    IN  {Spaced(l) : l \in lists} \cup {<<Blank>> \o Spaced(l) \o <<Blank>> : l \in lists}

CustomForms ==
    {[NoForm EXCEPT !.kind = "custom", !.name = n, !.image = <<"img:1">>, !.port = pt,
                    !.env = ev] :
        n \in {<<>>, <<"db">>, <<Blank, "b", Blank>>}, pt \in {<<>>, <<"80">>},
        ev \in GuiEnvTexts}

PresetForms ==
    {[kind |-> k, name |-> <<"db">>, user |-> <<"u">>, password |-> <<"p">>,
      db |-> <<"d">>, port |-> pt, image |-> im, env |-> <<>>] :
        k \in Presets, pt \in {<<>>, <<"5432">>}, im \in {<<>>, <<"img:1">>}}

RedisForms ==
    {[NoForm EXCEPT !.kind = "redis", !.name = <<"db2">>, !.port = pt, !.image = <<"redis:7">>] :
        pt \in {<<"0">>, <<"80">>}}

Forms == CustomForms \cup PresetForms \cup RedisForms

---------------------------------------------------------------------------
(* The front-end: one press of a button, then the CLI it started *)

InitGui == InitCli

NextGui ==
    \E p \in Solo :
        \/ \E f \in Forms : GuiLaunch(p, f)
        \/ \E f \in Forms : GuiStop(p, f)
        \/ Step(p)

SpecGui == InitGui /\ [][NextGui]_vars

---------------------------------------------------------------------------
(* The race: two launches of one name, no locking, a runtime that serialises *)

RaceName == "db"

\* the launches that race: one name, two kinds, with and without assignments
RaceArgvs ==
    {a \in RedisArgvs({Some(PortInput(6379))}, {None})
            \cup CustomArgvs({None}, {Some("img:1")}, {None, Some(<<"A=1">>)}) :
        a.name = Some(RaceName)}

\* the runtime refuses a command only for the state of the container it names
InitRace == InitCommon /\ form = NoForm /\ reliable = TRUE

\* each process is invoked once; the runtime takes their commands one at a time
NextRace == \E p \in Procs : (First(p, RaceArgvs) \/ Step(p))

SpecRace == InitRace /\ [][NextRace]_vars

---------------------------------------------------------------------------
(* Reading an invocation's record *)

Last(l) == l[Len(l)]

Done(p) == pc[p] = "done"

\* the command line passed argparse
Parsed(p) == args[p].command # ""

Launching(p) == args[p].command \in Launchers

Returned(e) == e.kind = "completed"

\* the commands the runtime was actually handed, in order
Issued(p) ==
    LET r == SelectSeq(log[p], Returned) IN [i \in 1..Len(r) |-> r[i].cmd]

\* a spawn failure or a missing executable ended the invocation
Died(p) == \E i \in 1..Len(log[p]) : ~Returned(log[p][i])

IsRunOf(cmd, n) == Len(cmd) >= 3 /\ cmd[1] = "run" /\ cmd[2] = "--name" /\ cmd[3] = n

\* the last call was a run command, and it returned
RunReturned(p) ==
    log[p] # <<>> /\ Returned(Last(log[p])) /\ Last(log[p]).cmd[1] = "run"

\* the calls of the given verb that returned
Calls(p, verb) == {i \in 1..Len(log[p]) : Returned(log[p][i]) /\ log[p][i].cmd[1] = verb}

---------------------------------------------------------------------------
(* C1: replacing an existing container *)

\* the commands issued after the listing are stop, rm, run of the name, as far as
\* the invocation got
ReplaceOrder(p) ==
    LET n == args[p].name
        after == Tail(Issued(p))
    IN  /\ Len(after) <= 3
        /\ Len(after) >= 1 => after[1] = <<"stop", n>>
        /\ Len(after) >= 2 => after[2] = <<"rm", n>>
        /\ Len(after) >= 3 => IsRunOf(after[3], n)

\* C1 as stated: whenever run_container finds the name existing, the commands issued
\* after the listing are exactly stop, rm and run of that name, in that order
C1_Original ==
    \A p \in Procs :
        (Done(p) /\ found[p]) => (ReplaceOrder(p) /\ Len(Issued(p)) = 4)

\* C1, amended: when run_container finds the name existing, the commands issued after
\* the listing are stop, rm, run of that name in that order and nothing else; all
\* three are issued unless find_docker or a spawn failure ends the process first,
\* and then the ones issued are a proper prefix of the three
C1_ReplaceSequence ==
    \A p \in Procs :
        found[p] =>
            /\ ReplaceOrder(p)
            /\ Done(p) => (Len(Issued(p)) = 4 <=> ~Died(p))

C1_Witness ==
    \E p \in Procs :
        /\ Done(p) /\ found[p] /\ ~Died(p)
        /\ Len(Issued(p)) = 4
        /\ pre[p][args[p].name] = "running"
        /\ containers[args[p].name] = "running"

---------------------------------------------------------------------------
(* C2: idempotent launch *)

\* the run command was refused because a container of the name exists
NameInUse(p) == RunReturned(p) /\ Last(log[p]).err = "name in use"

\* the run command failed for a reason of its own (image, port, daemon)
StartRefused(p) == RunReturned(p) /\ Last(log[p]).err \in {"not created", "not started"}

\* the listing, the stop or the rm returned a nonzero status
CleanupFailed(p) ==
    \E i \in Calls(p, "ps") \cup Calls(p, "stop") \cup Calls(p, "rm") : log[p][i].rc # 0

\* the listing returned status 0
Listed(p) == \E i \in Calls(p, "ps") : log[p][i].rc = 0

\* C2 as stated, for the invocations that were not ended by a spawn failure, whose
\* listing succeeded and whose run was not refused for a reason of its own: each ends
\* with the container of the name running, and none fails because the name is in use
C2_Original ==
    \A p \in Procs :
        (Done(p) /\ Launching(p) /\ ~Died(p) /\ Listed(p) /\ ~StartRefused(p)) =>
            /\ containers[args[p].name] = "running"
            /\ exitCode[p] = 0
            /\ ~NameInUse(p)

\* C2, amended: over any number of consecutive launches of a name, starting from
\* absent, running or stopped, every launch that exits 0 leaves the container of that
\* name running, and a launch is refused because the name is in use only when its
\* listing, its stop or its rm returned a nonzero status
C2_IdempotentLaunch ==
    \A p \in Procs :
        (Done(p) /\ Launching(p)) =>
            /\ exitCode[p] = 0 =>
                /\ containers[args[p].name] = "running"
                /\ RunReturned(p) /\ Last(log[p]).rc = 0
            /\ NameInUse(p) => CleanupFailed(p)
            /\ (~Died(p) /\ ~StartRefused(p) /\ ~CleanupFailed(p)) => exitCode[p] = 0

C2_Witness ==
    \E p \in Procs :
        /\ Done(p) /\ Launching(p) /\ exitCode[p] = 0
        /\ found[p] /\ ~CleanupFailed(p)
        /\ pre[p][args[p].name] = "exited"
        /\ containers[args[p].name] = "running"

---------------------------------------------------------------------------
(* C3: the state of the name after stop_and_remove_container *)

\* stop_and_remove_container(name) has just returned: main() ended after it, or
\* run_container is about to build the run command
StopAndRemoveReturned(p) ==
    /\ log[p] # <<>> /\ Returned(Last(log[p])) /\ Last(log[p]).cmd[1] \in {"stop", "rm"}
    /\ pc[p] \in {"done", "run"}

\* C3 as stated: after stop_and_remove_container completes, the container of the
\* name is absent, whatever it was before and whatever the stop and the rm returned
C3_Original ==
    \A p \in Procs :
        StopAndRemoveReturned(p) => containers[args[p].name] = "absent"

\* C3, amended: after stop_and_remove_container completes, the container of the name
\* is absent if it was absent before or the rm returned status 0; it is still there
\* only if the rm returned a nonzero status, and still running only if the stop
\* returned a nonzero status too
C3_AbsentAfterStop ==
    \A p \in Procs :
        StopAndRemoveReturned(p) =>
            LET n == args[p].name
            IN  /\ pre[p][n] = "absent" => containers[n] = "absent"
                /\ (\E i \in Calls(p, "rm") : log[p][i].rc = 0) => containers[n] = "absent"
                /\ containers[n] # "absent" =>
                        \E i \in Calls(p, "rm") :
                            log[p][i].cmd = <<"rm", n>> /\ log[p][i].rc # 0
                /\ containers[n] = "running" =>
                        \E i \in Calls(p, "stop") :
                            log[p][i].cmd = <<"stop", n>> /\ log[p][i].rc # 0

C3_Witness ==
    \E p \in Procs :
        /\ StopAndRemoveReturned(p) /\ Done(p) /\ args[p].command = "stop"
        /\ pre[p][args[p].name] = "running"
        /\ containers[args[p].name] = "absent"

---------------------------------------------------------------------------
(* C4: the exit status *)

\* C4: an invocation that passed argparse exits nonzero exactly when find_docker
\* found nothing, a spawn raised, or the final run command returned nonzero; a
\* nonzero listing, stop or rm leaves the status 0; the failing call is the last one
C4_ExitStatus ==
    \A p \in Procs :
        /\ \A i \in 1..Len(log[p]) :
                (~Returned(log[p][i]) \/ (log[p][i].cmd[1] = "run" /\ log[p][i].rc # 0))
                    => (i = Len(log[p]) /\ Done(p))
        /\ (Done(p) /\ Parsed(p)) =>
                (exitCode[p] # 0 <=> (Died(p) \/ (RunReturned(p) /\ Last(log[p]).rc # 0)))

C4_Witness ==
    \E p \in Procs :
        /\ Done(p) /\ Parsed(p) /\ exitCode[p] = 0
        /\ Launching(p) /\ Len(log[p]) = 4
        /\ log[p][2].cmd[1] = "stop" /\ log[p][2].rc # 0

---------------------------------------------------------------------------
(* C5: the exit status of a failed start *)

\* C5 as stated: when the run command fails, the process exits with the status the
\* runtime command returned
C5_Original ==
    \A p \in Procs :
        (Done(p) /\ RunReturned(p) /\ Last(log[p]).rc # 0) => exitCode[p] = Last(log[p]).rc

\* C5, amended: when the run command fails, the failure is fatal and the process
\* exits with status 1, whatever nonzero status the runtime command returned
C5_StartFailureExit ==
    \A p \in Procs :
        (RunReturned(p) /\ Last(log[p]).rc # 0) => (Done(p) /\ exitCode[p] = 1)

C5_Witness ==
    \E p \in Procs :
        Done(p) /\ RunReturned(p) /\ Last(log[p]).rc = 125 /\ exitCode[p] = 1

---------------------------------------------------------------------------
(* C6: a failed stop or rm does not end the invocation *)

\* C6: once the stop has returned, whatever its status, the next call is the rm of
\* the same name; once the rm has returned, whatever its status, the stop command
\* ends with status 0 and a launch goes on to its run command
C6_StopRmNotFatal ==
    \A p \in Procs :
        /\ \A i \in Calls(p, "stop") :
                IF i = Len(log[p]) THEN pc[p] = "rm"
                ELSE log[p][i + 1].cmd = <<"rm", args[p].name>>
        /\ \A i \in Calls(p, "rm") :
                IF args[p].command = "stop"
                THEN i = Len(log[p]) /\ Done(p) /\ exitCode[p] = 0
                ELSE IF i = Len(log[p]) THEN pc[p] = "run"
                ELSE IsRunOf(log[p][i + 1].cmd, args[p].name)

C6_Witness ==
    \E p \in Procs :
        /\ Launching(p) /\ Len(log[p]) = 4
        /\ log[p][2].cmd[1] = "stop" /\ Returned(log[p][2]) /\ log[p][2].rc # 0
        /\ log[p][3].cmd[1] = "rm" /\ Returned(log[p][3]) /\ log[p][3].rc # 0
        /\ log[p][4].cmd[1] = "run" /\ Returned(log[p][4])

---------------------------------------------------------------------------
(* C10: container_exists *)

\* container_exists(name) has returned
ExistsReturned(p) == Calls(p, "ps") # {}

\* C10 as stated: container_exists(name) is true exactly when a container, running or
\* stopped, is named exactly name
C10_Original ==
    \A p \in Procs :
        ExistsReturned(p) => (found[p] <=> pre[p][args[p].name] # "absent")

\* C10, amended: when the listing returns status 0, container_exists(name) is true
\* exactly when a container, running or stopped, is named exactly name, whatever
\* other names contain it or are contained in it; when the listing fails it is false;
\* either way a launch of name leaves every differently named container as it was
C10_ExactName ==
    \A p \in Procs :
        /\ ExistsReturned(p) =>
                (found[p] <=> (log[p][1].rc = 0 /\ pre[p][args[p].name] # "absent"))
        /\ Parsed(p) => \A m \in Names \ {args[p].name} : containers[m] = pre[p][m]

C10_Witness ==
    \E p \in Procs :
        /\ ExistsReturned(p) /\ log[p][1].rc = 0 /\ ~found[p]
        /\ args[p].name = "db"
        /\ pre[p]["db"] = "absent" /\ pre[p]["db2"] # "absent" /\ pre[p]["b"] # "absent"
        /\ Done(p) /\ exitCode[p] = 0
        /\ containers["db2"] = pre[p]["db2"] /\ containers["b"] = pre[p]["b"]

---------------------------------------------------------------------------
(* C7: validate_port *)

\* the --port value of the command line, as given
PortGiven(p) == argv[p].port[1]

\* C7: a --port value is accepted exactly when it denotes an integer from 1 to 65535,
\* and then that integer is what the namespace holds; any other value, 0 and 65536
\* among them, ends the process with a usage error before any command is issued
C7_PortRange ==
    \A p \in Procs :
        (pc[p] # "idle" /\ argv[p].port # None) =>
            IF PortGiven(p).of # None /\ 1 <= PortGiven(p).of[1] /\ PortGiven(p).of[1] <= 65535
            THEN /\ Parsed(p)
                 /\ args[p].port = PortGiven(p).of
                 /\ exitCode[p] # 2
            ELSE /\ Done(p) /\ exitCode[p] = 2
                 /\ log[p] = <<>>
                 /\ containers = pre[p]

C7_Witness ==
    \E p \in Procs :
        /\ argv[p].port # None
        /\ PortGiven(p).of = Some(65535)
        /\ Parsed(p) /\ args[p].port = Some(65535) /\ pc[p] = "exists"

---------------------------------------------------------------------------
(* C8, C9: the run command of each kind *)

\* a run command was built and handed to run_docker_command
RunBuilt(p) == log[p] # <<>> /\ Last(log[p]).cmd[1] = "run"

\* the host ports the command lines use, as the runtime is to see them
PortShown(q) ==
    CASE q = 80    -> "80"
      [] q = 5432  -> "5432"
      [] q = 6379  -> "6379"
      [] q = 65535 -> "65535"

\* the preset table: the run command of a preset kind for a command line
PresetCommand(a) ==
    LET n == a.name[1]
        u == a.user[1]
        w == a.password[1]
        d == a.db[1]
        host == PortShown(a.port[1].of[1])
    IN  CASE a.command = "postgres" ->
                <<"run", "--name", n,
                  "-e", "POSTGRES_USER=" \o u,
                  "-e", "POSTGRES_PASSWORD=" \o w,
                  "-e", "POSTGRES_DB=" \o d,
                  "-p", host \o ":5432",
                  "-d", IF a.image = None THEN "postgres:16" ELSE a.image[1]>>
          [] a.command = "mysql" ->
                <<"run", "--name", n,
                  "-e", "MYSQL_ROOT_PASSWORD=" \o w,
                  "-e", "MYSQL_DATABASE=" \o d,
                  "-e", "MYSQL_USER=" \o u,
                  "-e", "MYSQL_PASSWORD=" \o w,
                  "-p", host \o ":3306",
                  "-d", IF a.image = None THEN "mysql:8" ELSE a.image[1]>>
          [] a.command = "redis" ->
                <<"run", "--name", a.name[1],
                  "-p", PortShown(a.port[1].of[1]) \o ":6379",
                  "-d", IF a.image = None THEN "redis:7" ELSE a.image[1]>>
          [] a.command = "mongo" ->
                <<"run", "--name", n,
                  "-e", "MONGO_INITDB_ROOT_USERNAME=" \o u,
                  "-e", "MONGO_INITDB_ROOT_PASSWORD=" \o w,
                  "-e", "MONGO_INITDB_DATABASE=" \o d,
                  "-p", host \o ":27017",
                  "-d", IF a.image = None THEN "mongo:7" ELSE a.image[1]>>

\* C8: the run command of postgres, mysql, redis and mongo is the one of the preset
\* table: the kind's assignments once each, in the table's order, with the values
\* given, then the mapping of the host port to the kind's port, -d and the image
C8_PresetCommand ==
    \A p \in Procs :
        (RunBuilt(p) /\ args[p].command \in Presets \cup {"redis"}) =>
            Last(log[p]).cmd = PresetCommand(argv[p])

C8_Witness ==
    \E p \in Procs :
        /\ RunBuilt(p) /\ Returned(Last(log[p])) /\ Last(log[p]).rc = 0
        /\ Last(log[p]).cmd =
            <<"run", "--name", "db", "-e", "POSTGRES_USER=u", "-e", "POSTGRES_PASSWORD=p",
              "-e", "POSTGRES_DB=d", "-p", "5432:5432", "-d", "postgres:16">>

\* the tokens of a command
Tokens(cmd) == {cmd[i] : i \in 1..Len(cmd)}

\* C9: the run command of custom has a -p flag exactly when --port was given, mapping
\* the port to itself, and carries the --env entries as given, in order, one -e each
C9_CustomCommand ==
    \A p \in Procs :
        (RunBuilt(p) /\ args[p].command = "custom") =>
            LET cmd == Last(log[p]).cmd
                envs == IF argv[p].env = None THEN <<>> ELSE argv[p].env[1]
                k == Len(envs)
            IN  /\ SubSeq(cmd, 1, 3) = <<"run", "--name", argv[p].name[1]>>
                /\ \A i \in 1..k : cmd[2 + 2 * i] = "-e" /\ cmd[3 + 2 * i] = envs[i]
                /\ "-p" \in Tokens(cmd) <=> argv[p].port # None
                /\ IF argv[p].port = None
                   THEN SubSeq(cmd, 4 + 2 * k, Len(cmd)) = <<"-d", argv[p].image[1]>>
                   ELSE SubSeq(cmd, 4 + 2 * k, Len(cmd)) =
                            <<"-p",
                              PortShown(PortGiven(p).of[1]) \o ":" \o PortShown(PortGiven(p).of[1]),
                              "-d", argv[p].image[1]>>

C9_Witness ==
    \E p \in Procs :
        /\ RunBuilt(p) /\ Returned(Last(log[p])) /\ Last(log[p]).rc = 0
        /\ argv[p].port = None
        /\ Last(log[p]).cmd =
            <<"run", "--name", "db", "-e", "A=1", "-e", "B=x y", "-d", "img:1">>

---------------------------------------------------------------------------
(* C11: the front-end's environment entries *)

NotBlank(x) == x # Blank

\* the entries typed into a field, in order
Typed(text) == SelectSeq(text, NotBlank)

\* the values of a command's -e flags, in order
RECURSIVE EnvAssignments(_)
EnvAssignments(cmd) ==
    IF Len(cmd) < 2 THEN <<>>
    ELSE IF Head(cmd) = "-e" THEN <<cmd[2]>> \o EnvAssignments(SubSeq(cmd, 3, Len(cmd)))
    ELSE EnvAssignments(Tail(cmd))

\* C11: for the custom kind, every entry typed into the Env Vars field appears, in
\* order, as an environment assignment of the run command the launched CLI issues
C11_GuiEnv ==
    \A p \in Procs :
        (RunBuilt(p) /\ form.kind = "custom") =>
            EnvAssignments(Last(log[p]).cmd) = Typed(form.env)

\* what the code does instead: only the last entry typed is passed on
C11_LastEntryOnly ==
    \A p \in Procs :
        (RunBuilt(p) /\ form.kind = "custom") =>
            EnvAssignments(Last(log[p]).cmd) =
                IF Typed(form.env) = <<>> THEN <<>> ELSE <<Last(Typed(form.env))>>

---------------------------------------------------------------------------
(* C12: two concurrent launches of one name *)

\* both invocations have terminated
BothDone == \A p \in Procs : Done(p)

\* a container of the name comes into being in this step
Created(n) == containers[n] = "absent" /\ containers'[n] # "absent"

\* the status of the name's container changes only as the runtime's commands change
\* it: created from absent, stopped from running, removed from exited
OneContainer(n) ==
    \/ containers'[n] = containers[n]
    \/ Created(n)
    \/ containers[n] = "running" /\ containers'[n] = "exited"
    \/ containers[n] = "exited" /\ containers'[n] = "absent"

\* C12: in every interleaving of two concurrent launches of one name, a container of
\* the name is created only while none exists, so at most one exists at any moment,
\* and once both invocations have terminated a container of the name is running
C12_Race ==
    /\ [](BothDone => containers[RaceName] = "running")
    /\ [][OneContainer(RaceName)]_vars

\* both found the container, both replaced it: the second stopped and removed the
\* container the first had started, and one of them was refused on the way
C12_Witness ==
    /\ BothDone
    /\ \A p \in Procs : found[p] /\ Len(log[p]) = 4
    /\ \E p \in Procs : \E i \in 1..Len(log[p]) : log[p][i].rc # 0
    /\ \E p \in Procs : exitCode[p] = 0 /\ pre[p][RaceName] = "running"

====
